---- MODULE Spec2Model ----
(***************************************************************************)
(* Model of the angular-analysis tools:                                    *)
(*   - detect-circular-deps.ts  (CircularDependencyDetector, main)         *)
(*   - analyze-ts-role.ts       (analyzeRole)                              *)
(*   - utils/cache-manager.ts   (CacheManager)                             *)
(*   - analyze-project.ts       (ProjectAnalyzer, main)                    *)
(***************************************************************************)
EXTENDS Integers, Sequences, FiniteSets, TLC

\* ------------------------------------------------------------------------
\* Bounds of the model
\* ------------------------------------------------------------------------
\* number of scanned .ts files of a project of the cycle detector
MaxFiles == 4
\* total number of resolved relative imports in such a project
MaxEdges == 5
\* number of entries of the root directory of a scanned tree
MaxEntries == 2
\* number of files of a project whose file names and decorators vary
MaxRing == 3
\* number of source files of a project of the project analyzer
MaxSrc == 2
\* number of different well-formed contents of a source file
MaxContent == 2
\* number of changes made to the file system between runs
MaxEdits == 1
\* number of runs of the project analyzer
MaxRuns == 2

VARIABLES
    \* ---- detect-circular-deps.ts ----
    projExists,    \* fs.existsSync(projectPath) in main
    files,         \* result of getAllTypeScriptFiles, in traversal order
    src,           \* the scanned files on disk: resolved imports, parse result, path, decorators
    graph,         \* CircularDependencyDetector.graph (Map file -> imports)
    circularDeps,  \* CircularDependencyDetector.circularDeps
    exitCode,      \* process exit code of main, NoExit while running
    dpc,           \* position of main
    \* ---- the file system seen by analyze-project.ts and the CacheManager ----
    rootMode,      \* how the project directory was given on the command line
    disk,          \* the project's source files: status, content, mtime
    cacheFile,     \* <project>/.cache/analysis-cache.json
    edits,         \* number of changes made to the file system so far
    \* ---- CacheManager ----
    cache,         \* CacheManager.cache
    \* ---- ProjectAnalyzer and its main ----
    apc,           \* position of main / analyze()
    runs,          \* number of runs started so far
    useCache,      \* ProjectAnalyzer.useCache
    loaded,        \* result of cacheManager.load()
    tsFiles,       \* result of getAllTypeScriptFiles
    idx,           \* position of the for loop over tsFiles
    afiles,        \* ProjectAnalyzer.files
    warnings,      \* ProjectAnalyzer.warnings
    cacheHits,     \* ProjectAnalyzer.cacheHits
    cacheMisses,   \* ProjectAnalyzer.cacheMisses
    dependencies,  \* result of buildDependencyGraph
    \* ---- history of the current run and of the last cache-enabled run ----
    outcome,       \* per scanned file: "hit", "miss" (extracted) or "failed"
    saveLookups,   \* results of getCachedAnalysis in the save step
    atLoad,        \* the cache file as the command found it when it started
    lastRecs,      \* records produced by the last completed cache-enabled run
    changed,       \* source files modified since that run
    \* ---- direct use of the CacheManager (scripts/test-cache.ts) ----
    apiResult,     \* the last call of load, hasFileChanged or getCachedAnalysis
    \* ---- additions to the detector and the analyzer ----
    prev,          \* graph and cycles of the previous run of the detector on this project
    ioLog,         \* load(), file analyses and save() of the current run, in order
    \* ---- the scanners (getAllTypeScriptFiles of both tools) ----
    tree,          \* the project directory on disk
    scan,          \* outcome of a run over tree: files yielded, report, exit code
    \* ---- resolution of one relative import by the three graph builders ----
    impSrc,        \* what exists on disk for the import source
    resolved,      \* the tool that resolved it and the edge it made
    \* ---- role classification ----
    roleIn,        \* decorators, file name and exports of a parsed file
    roleOut        \* the classifier applied and its result

dvars == <<projExists, files, src, graph, circularDeps, exitCode, dpc, prev>>
fsvars == <<rootMode, disk, cacheFile, edits>>
runvars == <<cache, apc, runs, useCache, loaded, tsFiles, idx, afiles, warnings,
             cacheHits, cacheMisses, dependencies, outcome, saveLookups, atLoad, ioLog>>
histvars == <<lastRecs, changed>>
xvars == <<tree, scan, impSrc, resolved, roleIn, roleOut>>
avars == <<fsvars, runvars, histvars, apiResult, xvars>>
othervars == <<dvars, apiResult, xvars>>
vars == <<dvars, avars>>

\* ------------------------------------------------------------------------
\* Helpers
\* ------------------------------------------------------------------------
Range(s) == {s[i] : i \in 1..Len(s)}

Min(a, b) == IF a < b THEN a ELSE b

\* sequences over S of length at most k
SeqUpTo(S, k) == UNION {[1..m -> S] : m \in 0..k}

RECURSIVE SumLen(_, _)
SumLen(f, n) == IF n = 0 THEN 0 ELSE Len(f[n]) + SumLen(f, n - 1)

\* an existing file that the scanner does not yield (a .spec.ts file, a file
\* under dist/), which a relative import may still resolve to
Ext == 0

NoExit == 0 - 1
Undef == 0 - 1

\* ------------------------------------------------------------------------
\* analyze-ts-role.ts: analyzeRole (role decision only)
\* ------------------------------------------------------------------------
\* dec: decorators found, nm: conventions contained in the lower-cased file
\* path, nexp: number of exported symbols collected
analyzeRole(dec, nm, nexp) ==
    IF "Component" \in dec THEN [primaryRole |-> "Component", confidence |-> "high"]
    ELSE IF "Injectable" \in dec THEN
        IF "service" \in nm THEN [primaryRole |-> "Service", confidence |-> "high"]
        ELSE IF "guard" \in nm THEN [primaryRole |-> "Guard", confidence |-> "high"]
        ELSE IF "interceptor" \in nm THEN [primaryRole |-> "Interceptor", confidence |-> "high"]
        ELSE IF "resolver" \in nm THEN [primaryRole |-> "Resolver", confidence |-> "high"]
        ELSE [primaryRole |-> "Injectable Service", confidence |-> "medium"]
    ELSE IF "NgModule" \in dec THEN [primaryRole |-> "Module", confidence |-> "high"]
    ELSE IF "Pipe" \in dec THEN [primaryRole |-> "Pipe", confidence |-> "high"]
    ELSE IF "Directive" \in dec THEN [primaryRole |-> "Directive", confidence |-> "high"]
    ELSE IF "model" \in nm \/ "interface" \in nm
        THEN [primaryRole |-> "Model/Interface", confidence |-> "medium"]
    ELSE IF nexp > 0 THEN [primaryRole |-> "Utility/Helper", confidence |-> "low"]
    ELSE [primaryRole |-> "Unknown", confidence |-> "low"]

\* ------------------------------------------------------------------------
\* The file system seen by analyze-project.ts and utils/cache-manager.ts
\* ------------------------------------------------------------------------
SrcFiles == 1..MaxSrc

\* contents of a source file: 0 does not parse, the others do
Contents == 0..MaxContent
parses(c) == c > 0

\* A path is <<kind, file>>:
\*   "abs"    the absolute path of the file
\*   "dot"    the path relative to the working directory, the project being '.'
\*   "rel"    the path relative to the working directory, the project being
\*            a sub-directory given by a relative path
\*   "nested" <cwd>/<project>/<project>/..., which names no file
RootModes == {"abs", "dot", "rel"}

\* path.join(currentPath, item) in getAllTypeScriptFiles
scanPath(f) == <<rootMode, f>>

\* path.resolve(this.baseDir, file.path) in the save step of analyze()
resolveFromBase(p) ==
    IF p[1] = "abs" THEN p
    ELSE IF p[1] = "dot" THEN <<"abs", p[2]>>
    ELSE <<"nested", p[2]>>

\* fs.statSync succeeds
statable(p) == p[1] # "nested" /\ disk[p[2]].status # "gone"
\* fs.readFileSync succeeds
readable(p) == p[1] # "nested" /\ disk[p[2]].status = "ok"
mtimeMs(p) == disk[p[2]].mtime
contentOf(p) == disk[p[2]].content

\* ------------------------------------------------------------------------
\* utils/cache-manager.ts: CacheManager
\* ------------------------------------------------------------------------
\* private version = '1.0.0'
Version == 1
\* the version tag of a cache file written by another release of the tool
OtherVersion == Version + 1

\* crypto md5 of the content
md5(c) == 31 * c + 7
\* calculateFileHash: '' when the file cannot be read
EmptyHash == 0
calculateFileHash(p) == IF readable(p) THEN md5(contentOf(p)) ELSE EmptyHash

NoPath == <<"none", 0>>
\* null / undefined where a FileAnalysis is expected
NoRecord == [path |-> NoPath, linesOfCode |-> 0, decls |-> 0]
EmptyMap == [k \in {} |-> NoRecord]
\* this.cache === null
NullCache == [nonNull |-> FALSE, version |-> 0, files |-> EmptyMap]

\* Object.fromEntries(map) and new Map(Object.entries(obj))
fromEntries(map) == {<<k, map[k]>> : k \in DOMAIN map}
toMap(obj) == [k \in {e[1] : e \in obj} |-> (CHOOSE e \in obj : e[1] = k)[2]]

NoCacheFile == [kind |-> "absent", version |-> 0, files |-> {}]

\* (mutant) a cache file of another version is accepted
loadAnyVersion(file, c) ==
    IF file.kind \in {"absent", "corrupt", "notable"} THEN [ok |-> FALSE, cache |-> c]
    ELSE [ok |-> TRUE,
          cache |-> [nonNull |-> TRUE, version |-> file.version, files |-> toMap(file.files)]]

\* (mutant) a cache file that cannot be parsed is loaded as an empty cache
loadCorruptAsEmpty(file, c) ==
    IF file.kind = "absent" THEN [ok |-> FALSE, cache |-> c]
    ELSE IF file.kind \in {"corrupt", "notable"}
        THEN [ok |-> TRUE, cache |-> [nonNull |-> TRUE, version |-> Version, files |-> EmptyMap]]
    ELSE IF file.version # Version THEN [ok |-> FALSE, cache |-> c]
    ELSE [ok |-> TRUE,
          cache |-> [nonNull |-> TRUE, version |-> file.version, files |-> toMap(file.files)]]

\* load(): the result and the new value of this.cache
\*   "absent"   the file does not exist
\*   "corrupt"  JSON.parse throws
\*   "notable"  parsed.files is missing: Object.entries throws
load(file, c) ==
    IF file.kind = "absent" THEN [ok |-> FALSE, cache |-> c]
    ELSE IF file.kind = "corrupt" THEN [ok |-> FALSE, cache |-> c]
    ELSE IF file.version # Version THEN [ok |-> FALSE, cache |-> c]
    ELSE IF file.kind = "notable" THEN [ok |-> FALSE, cache |-> c]
    ELSE [ok |-> TRUE,
          cache |-> [nonNull |-> TRUE, version |-> file.version, files |-> toMap(file.files)]]

\* (mutant) entries of files that no longer exist are dropped when saving
saveExistingOnly(map) ==
    LET kept == [k \in {p \in DOMAIN map : statable(p)} |-> map[k]]
    IN [file |-> [kind |-> "ok", version |-> Version, files |-> fromEntries(kept)],
        cache |-> [nonNull |-> TRUE, version |-> Version, files |-> kept]]

\* save(projectPath, files): the file written and the new value of this.cache
save(map) ==
    [file |-> [kind |-> "ok", version |-> Version, files |-> fromEntries(map)],
     cache |-> [nonNull |-> TRUE, version |-> Version, files |-> map]]

\* (mutant) the two tests are joined by 'and'
hasFileChangedBoth(c, p) ==
    IF ~c.nonNull THEN TRUE
    ELSE IF p \notin DOMAIN c.files THEN TRUE
    ELSE IF ~statable(p) THEN TRUE
    ELSE mtimeMs(p) > c.files[p].lastModified /\ calculateFileHash(p) # c.files[p].hash

\* (mutant) an equal time stamp counts as newer
hasFileChangedNotOlder(c, p) ==
    IF ~c.nonNull THEN TRUE
    ELSE IF p \notin DOMAIN c.files THEN TRUE
    ELSE IF ~statable(p) THEN TRUE
    ELSE mtimeMs(p) >= c.files[p].lastModified \/ calculateFileHash(p) # c.files[p].hash

\* (mutant) only the time stamp is tested
hasFileChangedMtimeOnly(c, p) ==
    IF ~c.nonNull THEN TRUE
    ELSE IF p \notin DOMAIN c.files THEN TRUE
    ELSE IF ~statable(p) THEN TRUE
    ELSE mtimeMs(p) > c.files[p].lastModified

hasFileChanged(c, p) ==
    IF ~c.nonNull THEN TRUE
    ELSE IF p \notin DOMAIN c.files THEN TRUE
    ELSE IF ~statable(p) THEN TRUE
    ELSE mtimeMs(p) > c.files[p].lastModified \/ calculateFileHash(p) # c.files[p].hash

getCachedAnalysis(c, p) ==
    IF ~c.nonNull THEN NoRecord
    ELSE IF p \notin DOMAIN c.files THEN NoRecord
    ELSE IF hasFileChanged(c, p) THEN NoRecord
    ELSE c.files[p].analysis

\* Map.set
mapSet(map, k, v) == [x \in DOMAIN map \cup {k} |-> IF x = k THEN v ELSE map[x]]

addToCache(c, p, analysis) ==
    LET c1 == IF ~c.nonNull
              THEN [nonNull |-> TRUE, version |-> Version, files |-> EmptyMap]
              ELSE c
    IN IF statable(p)
       THEN [c1 EXCEPT !.files = mapSet(@, p, [path |-> p, hash |-> calculateFileHash(p),
                                               lastModified |-> mtimeMs(p),
                                               analysis |-> analysis])]
       ELSE c1

\* (mutant) only the in-memory cache is dropped
clearMemoryOnly(file) == [file |-> file, cache |-> NullCache]

\* clear(): the cache file is unlinked and this.cache is reset
clear(file) == [file |-> NoCacheFile, cache |-> NullCache]

\* ------------------------------------------------------------------------
\* analyze-project.ts: ProjectAnalyzer
\* ------------------------------------------------------------------------
\* content.split('\n').length
linesOf(c) == c + 1

\* analyzeTypeScriptFile on a readable file: the record, with the extracted
\* fields left at their defaults when the content does not parse
analyzeTypeScriptFile(p) ==
    LET c == contentOf(p)
    IN [path |-> p, linesOfCode |-> linesOf(c), decls |-> IF parses(c) THEN c ELSE 0]

\* getAllTypeScriptFiles: the existing files in directory order
RECURSIVE scanFrom(_)
scanFrom(f) ==
    IF f > MaxSrc THEN <<>>
    ELSE IF disk[f].status # "gone" THEN <<f>> \o scanFrom(f + 1)
    ELSE scanFrom(f + 1)

getAllTypeScriptFiles == scanFrom(1)

\* buildDependencyGraph: one node per element of this.files
graphNodes(recs) == [i \in 1..Len(recs) |-> recs[i].path]

\* the forEach of the save step: the cache and the lookup results after
\* the records from position i on
RECURSIVE saveLoop(_, _, _, _)
saveLoop(recs, i, c, looks) ==
    IF i > Len(recs) THEN [cache |-> c, lookups |-> looks]
    ELSE LET fullPath == resolveFromBase(recs[i].path)
             cached == getCachedAnalysis(c, fullPath)
             c1 == IF cached # NoRecord \/ cacheMisses > 0
                   THEN addToCache(c, fullPath, recs[i])
                   ELSE c
         IN saveLoop(recs, i + 1, c1, Append(looks, cached))

\* analyze: if (this.useCache && this.cacheManager) this.cacheManager.load()
logLoad(log, uc) == IF uc THEN Append(log, "load") ELSE log

\* (mutant) the cache is persisted whether or not it is enabled
logSaveAlways(log, uc) == Append(log, "save")

\* analyze: if (this.useCache && this.cacheManager) { ...; this.cacheManager.save(...) }
logSave(log, uc) == IF uc THEN Append(log, "save") ELSE log

readyToRun == apc \in {"idle", "done", "cleared"}

\* main up to the for loop of analyze(): constructor, load, scan
StartRun ==
    /\ readyToRun
    /\ runs < MaxRuns
    /\ runs' = runs + 1
    /\ \E uc \in BOOLEAN :
         /\ useCache' = uc
         /\ LET l == IF uc THEN load(cacheFile, NullCache)
                     ELSE [ok |-> FALSE, cache |-> NullCache]
            IN /\ loaded' = l.ok
               /\ cache' = l.cache
               /\ ioLog' = logLoad(<<>>, uc)
    /\ atLoad' = cacheFile
    /\ tsFiles' = getAllTypeScriptFiles
    /\ idx' = 1
    /\ afiles' = <<>>
    /\ warnings' = <<>>
    /\ cacheHits' = 0
    /\ cacheMisses' = 0
    /\ dependencies' = <<>>
    /\ outcome' = [f \in {} |-> "none"]
    /\ saveLookups' = <<>>
    /\ apc' = "loop"
    /\ UNCHANGED <<fsvars, histvars, othervars>>

\* one iteration of the for loop of analyze()
AnalyzeFile ==
    /\ apc = "loop"
    /\ idx <= Len(tsFiles)
    /\ LET f == tsFiles[idx]
           file == scanPath(f)
           cached == IF useCache THEN getCachedAnalysis(cache, file) ELSE NoRecord
       IN IF cached # NoRecord
          THEN /\ afiles' = Append(afiles, cached)
               /\ cacheHits' = cacheHits + 1
               /\ outcome' = mapSet(outcome, f, "hit")
               /\ UNCHANGED <<cache, cacheMisses, warnings>>
          ELSE IF readable(file)
          THEN LET analysis == analyzeTypeScriptFile(file)
               IN /\ afiles' = Append(afiles, analysis)
                  /\ warnings' = IF parses(contentOf(file)) THEN warnings
                                 ELSE Append(warnings, [type |-> "warning", file |-> file])
                  /\ cache' = IF useCache THEN addToCache(cache, file, analysis) ELSE cache
                  /\ cacheMisses' = IF useCache THEN cacheMisses + 1 ELSE cacheMisses
                  /\ outcome' = mapSet(outcome, f, "miss")
                  /\ UNCHANGED cacheHits
          \* readFileSync throws: caught by the try around the loop body
          ELSE /\ warnings' = Append(warnings, [type |-> "error", file |-> file])
               /\ outcome' = mapSet(outcome, f, "failed")
               /\ UNCHANGED <<afiles, cache, cacheHits, cacheMisses>>
    /\ idx' = idx + 1
    /\ ioLog' = Append(ioLog, "file")
    /\ UNCHANGED <<fsvars, histvars, othervars, apc, runs, useCache, loaded, tsFiles,
                   dependencies, saveLookups, atLoad>>

\* buildDependencyGraph, after the loop
BuildDependencyGraph ==
    /\ apc = "loop"
    /\ idx > Len(tsFiles)
    /\ dependencies' = graphNodes(afiles)
    /\ apc' = "built"
    /\ UNCHANGED <<fsvars, histvars, othervars, cache, runs, useCache, loaded, tsFiles, idx,
                   afiles, warnings, cacheHits, cacheMisses, outcome, saveLookups, atLoad, ioLog>>

\* the record the loop pushed for the scanned file f: files that failed have
\* none, the others have theirs in scan order
recordAt(f) ==
    LET k == CHOOSE j \in 1..Len(tsFiles) : tsFiles[j] = f
    IN afiles[Cardinality({j \in 1..k : outcome[tsFiles[j]] # "failed"})]

\* the save step of analyze() and the return to main
SaveCache ==
    /\ apc = "built"
    /\ IF useCache
       THEN LET r == saveLoop(afiles, 1, cache, <<>>)
                s == save(r.cache.files)
            IN /\ saveLookups' = r.lookups
               /\ cacheFile' = s.file
               /\ cache' = s.cache
               /\ lastRecs' = [f \in DOMAIN outcome \ {g \in DOMAIN outcome : outcome[g] = "failed"}
                                 |-> recordAt(f)]
               /\ changed' = {}
       ELSE UNCHANGED <<saveLookups, cacheFile, cache, lastRecs, changed>>
    /\ ioLog' = logSave(ioLog, useCache)
    /\ apc' = "saved"
    /\ UNCHANGED <<rootMode, disk, edits, othervars, runs, useCache, loaded, tsFiles, idx, afiles,
                   warnings, cacheHits, cacheMisses, dependencies, outcome, atLoad>>

\* main after analyze(): the result is formatted and written, the process ends
MainOutput ==
    /\ apc = "saved"
    /\ apc' = "done"
    /\ UNCHANGED <<fsvars, histvars, othervars, cache, runs, useCache, loaded, tsFiles, idx,
                   afiles, warnings, cacheHits, cacheMisses, dependencies, outcome,
                   saveLookups, atLoad, ioLog>>

NoApiResult == [op |-> "none", path |-> NoPath, ok |-> FALSE, rec |-> NoRecord]

\* the values of the analyzer's variables when no analysis has run
NoRun ==
    /\ cache = NullCache
    /\ useCache = FALSE
    /\ loaded = FALSE
    /\ tsFiles = <<>>
    /\ idx = 1
    /\ afiles = <<>>
    /\ warnings = <<>>
    /\ cacheHits = 0
    /\ cacheMisses = 0
    /\ dependencies = <<>>
    /\ outcome = [f \in {} |-> "none"]
    /\ saveLookups = <<>>
    /\ atLoad = NoCacheFile
    /\ ioLog = <<>>

\* main with --clear-cache: new CacheManager, clear(), process.exit(0)
ClearCacheCmd ==
    /\ readyToRun
    /\ edits < MaxEdits
    /\ edits' = edits + 1
    /\ LET r == clear(cacheFile)
       IN /\ cacheFile' = r.file
          /\ cache' = r.cache
    /\ apc' = "cleared"
    /\ useCache' = FALSE
    /\ loaded' = FALSE
    /\ tsFiles' = <<>>
    /\ idx' = 1
    /\ afiles' = <<>>
    /\ warnings' = <<>>
    /\ cacheHits' = 0
    /\ cacheMisses' = 0
    /\ dependencies' = <<>>
    /\ outcome' = [f \in {} |-> "none"]
    /\ saveLookups' = <<>>
    /\ atLoad' = cacheFile
    /\ ioLog' = <<>>
    /\ lastRecs' = EmptyMap
    /\ changed' = {}
    /\ UNCHANGED <<rootMode, disk, runs, othervars>>

\* ---- changes of the file system while no tool runs ----
quiet == readyToRun \/ apc = "api"

\* the file scripts/test-cache.ts works on
testFile == 1

\* the files whose changes matter: all files of an analysed project, the test
\* file when the CacheManager is called directly
Watched == IF apc = "api" THEN {testFile} ELSE SrcFiles

\* a source file is rewritten; keep: the time stamp does not advance
WriteFile ==
    /\ quiet
    /\ edits < MaxEdits
    /\ edits' = edits + 1
    /\ \E f \in Watched : \E c \in Contents : \E keep \in BOOLEAN :
         /\ disk[f].status = "ok"
         /\ c # disk[f].content
         /\ disk' = [disk EXCEPT ![f].content = c,
                                 ![f].mtime = IF keep THEN @ ELSE @ + 1]
         /\ changed' = changed \cup {f}
    /\ UNCHANGED <<rootMode, cacheFile, runvars, lastRecs, dvars, xvars>>
    /\ apiResult' = NoApiResult

\* touch: only the time stamp advances
TouchFile ==
    /\ quiet
    /\ edits < MaxEdits
    /\ edits' = edits + 1
    /\ \E f \in Watched :
         /\ disk[f].status # "gone"
         /\ disk' = [disk EXCEPT ![f].mtime = @ + 1]
         /\ changed' = changed \cup {f}
    /\ UNCHANGED <<rootMode, cacheFile, runvars, lastRecs, dvars, xvars>>
    /\ apiResult' = NoApiResult

\* chmod: the read permission of a file is taken away or given back
ChmodFile ==
    /\ quiet
    /\ edits < MaxEdits
    /\ edits' = edits + 1
    /\ \E f \in Watched :
         /\ disk[f].status # "gone"
         /\ disk' = [disk EXCEPT ![f].status = IF @ = "ok" THEN "unreadable" ELSE "ok"]
         /\ changed' = changed \cup {f}
    /\ UNCHANGED <<rootMode, cacheFile, runvars, lastRecs, dvars, xvars>>
    /\ apiResult' = NoApiResult

DeleteFile ==
    /\ quiet
    /\ edits < MaxEdits
    /\ edits' = edits + 1
    /\ \E f \in Watched :
         /\ disk[f].status # "gone"
         /\ disk' = [disk EXCEPT ![f].status = "gone"]
         /\ changed' = changed \cup {f}
    /\ UNCHANGED <<rootMode, cacheFile, runvars, lastRecs, dvars, xvars>>
    /\ apiResult' = NoApiResult

\* the cache file is damaged: truncated ("corrupt"), left without its
\* entry table ("notable"), or replaced by one of another release
DamageCacheFile ==
    /\ quiet
    /\ edits < MaxEdits
    /\ edits' = edits + 1
    /\ cacheFile.kind = "ok"
    /\ cacheFile.version = Version
    /\ \/ cacheFile' = [cacheFile EXCEPT !.kind = "corrupt", !.files = {}]
       \/ cacheFile' = [cacheFile EXCEPT !.kind = "notable", !.files = {}]
       \/ cacheFile' = [cacheFile EXCEPT !.version = OtherVersion]
    /\ lastRecs' = EmptyMap
    /\ UNCHANGED <<rootMode, disk, runvars, changed, dvars, xvars>>
    /\ apiResult' = NoApiResult

FsNext == WriteFile \/ TouchFile \/ ChmodFile \/ DeleteFile \/ DamageCacheFile

\* ------------------------------------------------------------------------
\* scripts/test-cache.ts: the CacheManager called directly
\* ------------------------------------------------------------------------
apiFrame == UNCHANGED <<rootMode, disk, edits, apc, runs, useCache, loaded, tsFiles, idx,
                        afiles, warnings, cacheHits, cacheMisses, dependencies, outcome,
                        saveLookups, atLoad, ioLog, histvars, dvars, xvars>>

\* new CacheManager(testDir)
ApiNew ==
    /\ apc = "api"
    /\ cache' = NullCache
    /\ apiResult' = NoApiResult
    /\ UNCHANGED cacheFile
    /\ apiFrame

ApiLoad ==
    /\ apc = "api"
    /\ LET r == load(cacheFile, cache)
       IN /\ cache' = r.cache
          /\ apiResult' = [op |-> "load", path |-> NoPath, ok |-> r.ok, rec |-> NoRecord]
    /\ UNCHANGED cacheFile
    /\ apiFrame

\* addToCache(testFile, analysis) with the analysis of the file as it is
ApiAddToCache ==
    /\ apc = "api"
    /\ \E f \in {testFile} :
         /\ readable(scanPath(f))
         /\ cache' = addToCache(cache, scanPath(f), analyzeTypeScriptFile(scanPath(f)))
    /\ apiResult' = NoApiResult
    /\ UNCHANGED cacheFile
    /\ apiFrame

ApiSave ==
    /\ apc = "api"
    /\ LET r == save(cache.files)
       IN /\ cacheFile' = r.file
          /\ cache' = r.cache
    /\ apiResult' = NoApiResult
    /\ apiFrame

ApiGetCachedAnalysis ==
    /\ apc = "api"
    /\ \E f \in {testFile} :
         LET r == getCachedAnalysis(cache, scanPath(f))
         IN apiResult' = [op |-> "get", path |-> scanPath(f), ok |-> r # NoRecord, rec |-> r]
    /\ UNCHANGED <<cache, cacheFile>>
    /\ apiFrame

ApiHasFileChanged ==
    /\ apc = "api"
    /\ \E f \in {testFile} :
         apiResult' = [op |-> "changed", path |-> scanPath(f),
                       ok |-> hasFileChanged(cache, scanPath(f)), rec |-> NoRecord]
    /\ UNCHANGED <<cache, cacheFile>>
    /\ apiFrame

ApiClear ==
    /\ apc = "api"
    /\ LET r == clear(cacheFile)
       IN /\ cacheFile' = r.file
          /\ cache' = r.cache
    /\ apiResult' = NoApiResult
    /\ apiFrame

\* ---- the other tools before they run ----
NoPrev == [set |-> FALSE, graph |-> << >>, circularDeps |-> <<>>, exitCode |-> NoExit]
NoTree == [readable |-> TRUE, entries |-> <<>>]
NoScan == [tool |-> "none", files |-> <<>>, records |-> <<>>, warnings |-> {}, exit |-> NoExit]
NoImport == [endsTs |-> FALSE, literal |-> "none", plusTs |-> FALSE, index |-> FALSE,
             scanned |-> {}]
NoResolved == [tool |-> "none", target |-> "none", edge |-> FALSE]
NoRoleIn == [decorators |-> {}, markers |-> {}, exports |-> {}]
NoRoleOut == [by |-> "none", role |-> "Unknown", confidence |-> "low"]

ScanOff == tree = NoTree /\ scan = NoScan
ResolveOff == impSrc = NoImport /\ resolved = NoResolved
RoleOff == roleIn = NoRoleIn /\ roleOut = NoRoleOut
ToolsOff == ScanOff /\ ResolveOff /\ RoleOff

\* the detector does not run
DetectorOff ==
    /\ projExists = TRUE
    /\ files = <<>>
    /\ src = << >>
    /\ graph = << >>
    /\ circularDeps = <<>>
    /\ exitCode = NoExit
    /\ dpc = "off"
    /\ prev = NoPrev

\* the source files before any change: readable, with any content
DiskStates == [status : {"ok"}, content : Contents, mtime : {0}]

CacheApiInit ==
    /\ DetectorOff
    /\ ToolsOff
    /\ rootMode = "abs"
    /\ disk \in [SrcFiles -> DiskStates]
    /\ \A f \in SrcFiles \ {testFile} : disk[f].content = 1
    /\ cacheFile = NoCacheFile
    /\ edits = 0
    /\ NoRun
    /\ apc = "api"
    /\ runs = 0
    /\ lastRecs = EmptyMap
    /\ changed = {}
    /\ apiResult = NoApiResult

CacheApiNext ==
    \/ ApiNew \/ ApiLoad \/ ApiAddToCache \/ ApiSave
    \/ ApiGetCachedAnalysis \/ ApiHasFileChanged \/ ApiClear
    \/ FsNext

\* ---- specification of the project analyzer ----

AnalyzeInit ==
    /\ DetectorOff
    /\ ToolsOff
    /\ rootMode \in RootModes
    /\ disk \in [SrcFiles -> DiskStates]
    /\ cacheFile = NoCacheFile
    /\ edits = 0
    /\ NoRun
    /\ apc = "idle"
    /\ runs = 0
    /\ lastRecs = EmptyMap
    /\ changed = {}
    /\ apiResult = NoApiResult

AnalyzeNext ==
    \/ StartRun \/ AnalyzeFile \/ BuildDependencyGraph \/ SaveCache \/ MainOutput
    \/ ClearCacheCmd \/ FsNext

\* ------------------------------------------------------------------------
\* detect-circular-deps.ts: CircularDependencyDetector
\* ------------------------------------------------------------------------
\* extractImports: the resolved imports of a file; a parse error is swallowed
\* and leaves the list empty
extractImports(f) == IF src[f].parses THEN src[f].imports ELSE <<>>

\* addCircularDependency: type and severity from the substrings of the
\* member paths; the cycle is pushed at the end of circularDeps
hasModule(cycle) == \E i \in 1..Len(cycle) : "module" \in src[cycle[i]].markers
hasService(cycle) == \E i \in 1..Len(cycle) : "service" \in src[cycle[i]].markers
hasComponent(cycle) == \E i \in 1..Len(cycle) : "component" \in src[cycle[i]].markers

\* (mutant) service is tested before module
classifyCycleServiceFirst(cycle) ==
    IF hasService(cycle) THEN [type |-> "service", severity |-> "error"]
    ELSE IF hasModule(cycle) THEN [type |-> "module", severity |-> "error"]
    ELSE IF hasComponent(cycle) THEN [type |-> "component", severity |-> "warning"]
    ELSE [type |-> "general", severity |-> "warning"]

\* (mutant) a component cycle is given the severity of a service cycle
classifyCycleComponentError(cycle) ==
    IF hasModule(cycle) THEN [type |-> "module", severity |-> "error"]
    ELSE IF hasService(cycle) THEN [type |-> "service", severity |-> "error"]
    ELSE IF hasComponent(cycle) THEN [type |-> "component", severity |-> "error"]
    ELSE [type |-> "general", severity |-> "warning"]

classifyCycle(cycle) ==
    IF hasModule(cycle) THEN [type |-> "module", severity |-> "error"]
    ELSE IF hasService(cycle) THEN [type |-> "service", severity |-> "error"]
    ELSE IF hasComponent(cycle) THEN [type |-> "component", severity |-> "warning"]
    ELSE [type |-> "general", severity |-> "warning"]

\* (mutant) the cycle is put at the front of circularDeps
addCircularDependencyUnshift(deps, cycle) ==
    LET c == classifyCycle(cycle)
    IN <<[cycle |-> cycle, severity |-> c.severity, type |-> c.type]>> \o deps

addCircularDependency(deps, cycle) ==
    LET c == classifyCycle(cycle)
    IN Append(deps, [cycle |-> cycle, severity |-> c.severity, type |-> c.type])

\* component.length > 1
isCircular(component) == Len(component) > 1

\* (mutant) the popped files are put at the front of the component
RECURSIVE popComponentUnshift(_, _, _)
popComponentUnshift(st, v, component) ==
    LET w == st.stack[Len(st.stack)]
        st1 == [st EXCEPT !.stack = SubSeq(@, 1, Len(@) - 1), !.onStack[w] = FALSE]
        comp1 == <<w>> \o component
    IN IF w # v THEN popComponentUnshift(st1, v, comp1)
       ELSE IF isCircular(comp1)
            THEN [st1 EXCEPT !.deps = addCircularDependency(@, comp1)]
            ELSE st1

\* the do-while loop of strongConnect: pop until v is popped
RECURSIVE popComponent(_, _, _)
popComponent(st, v, component) ==
    LET w == st.stack[Len(st.stack)]
        st1 == [st EXCEPT !.stack = SubSeq(@, 1, Len(@) - 1), !.onStack[w] = FALSE]
        comp1 == Append(component, w)
    IN IF w # v THEN popComponent(st1, v, comp1)
       ELSE IF isCircular(comp1)
            THEN [st1 EXCEPT !.deps = addCircularDependency(@, comp1)]
            ELSE st1

\* (mutant) the on-stack test is dropped
visitedImportAnyVisited(st, v, w) ==
    [st EXCEPT !.lowlink[v] = Min(@, st.index[w])]

\* the else-if branch of the loop over node.imports: w already has an index
visitedImport(st, v, w) ==
    IF st.onStack[w] THEN [st EXCEPT !.lowlink[v] = Min(@, st.index[w])] ELSE st

RECURSIVE strongConnect(_, _, _)
RECURSIVE visitImports(_, _, _, _, _)

visitImports(g, st, v, imps, i) ==
    IF i > Len(imps) THEN st
    ELSE LET w == imps[i]
             st1 == IF st.index[w] = Undef
                    THEN LET s == strongConnect(g, st, w)
                         IN [s EXCEPT !.lowlink[v] = Min(@, s.lowlink[w])]
                    ELSE visitedImport(st, v, w)
         IN visitImports(g, st1, v, imps, i + 1)

strongConnect(g, st, v) ==
    LET st1 == [st EXCEPT !.index[v] = st.indexCounter,
                          !.lowlink[v] = st.indexCounter,
                          !.indexCounter = @ + 1,
                          !.stack = Append(@, v),
                          !.onStack[v] = TRUE]
        \* this.graph.get(v): undefined for a path that was not scanned
        imps == IF v \in DOMAIN g THEN g[v] ELSE <<>>
        st2 == visitImports(g, st1, v, imps, 1)
    IN IF st2.lowlink[v] = st2.index[v] THEN popComponent(st2, v, <<>>) ELSE st2

\* (mutant) the search is started from the first key of the Map only
forEachRootFirstOnly(g, order, st, i) ==
    IF Len(order) = 0 THEN st ELSE strongConnect(g, st, order[1])

\* for (const [file] of this.graph): Map iteration is insertion order
RECURSIVE forEachRoot(_, _, _, _)
forEachRoot(g, order, st, i) ==
    IF i > Len(order) THEN st
    ELSE forEachRoot(g, order,
                     IF st.index[order[i]] = Undef THEN strongConnect(g, st, order[i]) ELSE st,
                     i + 1)

findStronglyConnectedComponents(g, order, deps) ==
    LET T == Range(order) \cup {Ext}
        st0 == [index |-> [t \in T |-> Undef], lowlink |-> [t \in T |-> Undef],
                onStack |-> [t \in T |-> FALSE], stack |-> <<>>,
                indexCounter |-> 0, deps |-> deps]
    IN forEachRoot(g, order, st0, 1).deps

\* (mutant) any cycle counts as an error
hasErrorsAnyCycle(cycles) == Len(cycles) > 0

\* cycles.some(c => c.severity === 'error')
hasErrors(cycles) == \E i \in 1..Len(cycles) : cycles[i].severity = "error"

\* ---- the project on disk, before the tool runs ----
NewFile == [imports |-> <<>>, parses |-> TRUE, decorators |-> {}, markers |-> {}, nexp |-> 0]

\* a .ts file is added to the project
AddFile ==
    /\ dpc = "edit"
    /\ projExists
    /\ Len(files) < MaxFiles
    /\ LET f == Len(files) + 1
       IN /\ files' = Append(files, f)
          /\ src' = [g \in 1..f |-> IF g = f THEN NewFile ELSE src[g]]
    /\ UNCHANGED <<projExists, graph, circularDeps, exitCode, dpc, prev>>
    /\ UNCHANGED avars

\* a relative import that resolves to an existing file is added to a file
AddImport ==
    /\ dpc = "edit"
    /\ SumLen([f \in DOMAIN src |-> src[f].imports], Len(files)) < MaxEdges
    /\ \E f \in DOMAIN src : \E t \in DOMAIN src \cup {Ext} :
         src' = [src EXCEPT ![f].imports = Append(@, t)]
    /\ UNCHANGED <<projExists, files, graph, circularDeps, exitCode, dpc, prev>>
    /\ UNCHANGED avars

\* ---- actions of main ----

\* buildGraph: one Map entry per scanned file
BuildGraph ==
    /\ dpc \in {"edit", "rescan"}
    /\ projExists
    /\ graph' = [f \in Range(files) |-> extractImports(f)]
    /\ dpc' = "built"
    /\ UNCHANGED <<projExists, files, src, circularDeps, exitCode, prev>>
    /\ UNCHANGED avars

\* (mutant) the second run meets the files in the opposite order
graphKeysUnstable ==
    IF prev.set THEN [i \in 1..Len(files) |-> files[Len(files) + 1 - i]] ELSE files

\* this.graph.keys(): the insertion order of the Map, i.e. the order in which
\* getAllTypeScriptFiles met the files (readdirSync order, depth first)
graphKeys == files

FindSCC ==
    /\ dpc = "built"
    /\ circularDeps' = findStronglyConnectedComponents(graph, graphKeys, circularDeps)
    /\ dpc' = "detected"
    /\ UNCHANGED <<projExists, files, src, graph, exitCode, prev>>
    /\ UNCHANGED avars

\* formatConsole, then process.exit(1) if an error cycle exists
MainExit ==
    /\ dpc = "detected"
    /\ exitCode' = IF hasErrors(circularDeps) THEN 1 ELSE 0
    /\ dpc' = "exited"
    /\ UNCHANGED <<projExists, files, src, graph, circularDeps, prev>>
    /\ UNCHANGED avars

\* the project directory does not exist
MainNoDir ==
    /\ dpc = "edit"
    /\ ~projExists
    /\ exitCode' = 1
    /\ dpc' = "exited"
    /\ UNCHANGED <<projExists, files, src, graph, circularDeps, prev>>
    /\ UNCHANGED avars

\* the analyzer does not run
AnalyzerOff ==
    /\ rootMode = "abs"
    /\ disk = [f \in SrcFiles |-> [status |-> "ok", content |-> 1, mtime |-> 0]]
    /\ cacheFile = NoCacheFile
    /\ edits = 0
    /\ NoRun
    /\ apc = "off"
    /\ runs = 0
    /\ lastRecs = EmptyMap
    /\ changed = {}
    /\ apiResult = NoApiResult

DetectInitCommon ==
    /\ graph = << >>
    /\ circularDeps = <<>>
    /\ exitCode = NoExit
    /\ dpc = "edit"
    /\ prev = NoPrev
    /\ AnalyzerOff
    /\ ToolsOff

\* an empty project directory, or none
DetectInit ==
    /\ DetectInitCommon
    /\ projExists \in BOOLEAN
    /\ files = <<>>
    /\ src = << >>

DetectNext ==
    \/ AddFile \/ AddImport
    \/ BuildGraph \/ FindSCC \/ MainExit \/ MainNoDir

SpecDetect == DetectInit /\ [][DetectNext]_vars

\* file name and decorators of a scanned file
Profiles ==
    { [decorators |-> {},             markers |-> {},            nexp |-> 1],
      [decorators |-> {"NgModule"},   markers |-> {"module"},    nexp |-> 1],
      [decorators |-> {"Injectable"}, markers |-> {"service"},   nexp |-> 1],
      [decorators |-> {"Component"},  markers |-> {"component"}, nexp |-> 1],
      [decorators |-> {"NgModule"},   markers |-> {},            nexp |-> 1] }

\* MaxRing files that import at most one other file each, with every choice
\* of file names and decorators; at most one of them has a syntax error
ClassifyInit ==
    /\ DetectInitCommon
    /\ projExists = TRUE
    /\ files = [i \in 1..MaxRing |-> i]
    /\ \E imp \in [1..MaxRing -> SeqUpTo(1..MaxRing, 1)] :
       \E prof \in [1..MaxRing -> Profiles] :
       \E broken \in {{}} \cup {{f} : f \in 1..MaxRing} :
          /\ \A f \in 1..MaxRing : f \notin Range(imp[f])
          /\ src = [f \in 1..MaxRing |-> [imports |-> imp[f], parses |-> f \notin broken,
                                          decorators |-> prof[f].decorators,
                                          markers |-> prof[f].markers,
                                          nexp |-> prof[f].nexp]]

\* the tool is started again on the same, unchanged project
RunAgain ==
    /\ dpc = "exited"
    /\ projExists
    /\ ~prev.set
    /\ prev' = [set |-> TRUE, graph |-> graph, circularDeps |-> circularDeps,
                exitCode |-> exitCode]
    /\ graph' = << >>
    /\ circularDeps' = <<>>
    /\ exitCode' = NoExit
    /\ dpc' = "rescan"
    /\ UNCHANGED <<projExists, files, src>>
    /\ UNCHANGED avars

ClassifyNext == BuildGraph \/ FindSCC \/ MainExit \/ RunAgain

SpecClassify == ClassifyInit /\ [][ClassifyNext]_vars

SpecAnalyze == AnalyzeInit /\ [][AnalyzeNext]_vars

SpecCacheApi == CacheApiInit /\ [][CacheApiNext]_vars

\* ------------------------------------------------------------------------
\* Properties of the cycle detector
\* ------------------------------------------------------------------------
succs(g, v) == IF v \in DOMAIN g THEN Range(g[v]) ELSE {}

\* the nodes reachable from S along import edges (paths of length >= 0)
RECURSIVE reachable(_, _)
reachable(g, S) ==
    LET S1 == S \cup UNION {succs(g, v) : v \in S}
    IN IF S1 = S THEN S ELSE reachable(g, S1)

sccOf(g, v) == {w \in DOMAIN g : w \in reachable(g, {v}) /\ v \in reachable(g, {w})}

\* the strongly connected components with more than one member
bigSCCs(g) == {S \in {sccOf(g, v) : v \in DOMAIN g} : Cardinality(S) > 1}

detectDone == dpc \in {"detected", "exited"}

\* C1: detect() emits exactly one Cycle per strongly connected component with
\* more than one member and nothing else; every member is listed exactly once.
C1_OneCyclePerSCC ==
    detectDone =>
      /\ \A i \in 1..Len(circularDeps) :
           /\ Range(circularDeps[i].cycle) \in bigSCCs(graph)
           /\ Len(circularDeps[i].cycle) = Cardinality(Range(circularDeps[i].cycle))
      /\ \A S \in bigSCCs(graph) :
           Cardinality({i \in 1..Len(circularDeps) : Range(circularDeps[i].cycle) = S}) = 1

\* two separate cycles are reported by one run
C1_Witness ==
    /\ dpc = "detected"
    /\ Len(circularDeps) = 2
    /\ Cardinality(bigSCCs(graph)) = 2

\* the role analyzeRole gives a member file, as a cycle type
roleOf(f) ==
    LET r == analyzeRole(src[f].decorators, src[f].markers, src[f].nexp).primaryRole
    IN IF r = "Module" THEN "module"
       ELSE IF r \in {"Service", "Injectable Service"} THEN "service"
       ELSE IF r = "Component" THEN "component"
       ELSE "other"

precedence(kinds) ==
    IF "module" \in kinds THEN <<"module", "error">>
    ELSE IF "service" \in kinds THEN <<"service", "error">>
    ELSE IF "component" \in kinds THEN <<"component", "warning">>
    ELSE <<"general", "warning">>

C3_ExitCode ==
    (dpc = "exited" /\ projExists) =>
      ((exitCode # 0) <=> (\E i \in 1..Len(circularDeps) : circularDeps[i].severity = "error"))

\* a run that reports only warning cycles exits with code 0
C3_Witness ==
    /\ dpc = "exited"
    /\ projExists
    /\ Len(circularDeps) > 0
    /\ exitCode = 0
\* ------------------------------------------------------------------------
\* Properties of the CacheManager and of the project analyzer
\* ------------------------------------------------------------------------
\* the entry of p is usable: it exists, the file can be stat'ed, its time stamp
\* is not newer than the entry's and its content hash equals the entry's
entryFresh(c, p) ==
    /\ c.nonNull
    /\ p \in DOMAIN c.files
    /\ statable(p)
    /\ mtimeMs(p) <= c.files[p].lastModified
    /\ calculateFileHash(p) = c.files[p].hash

\* C4: getCachedAnalysis(path) returns the stored record exactly when the entry
\* exists, the file can be stat'ed, its mtime is not newer and its hash is
\* equal (i.e. when hasFileChanged is false), and null otherwise.
C4_GetCachedAnalysis ==
    /\ apiResult.op = "get" =>
         apiResult.rec = IF entryFresh(cache, apiResult.path)
                         THEN cache.files[apiResult.path].analysis
                         ELSE NoRecord
    /\ apiResult.op = "changed" => (apiResult.ok <=> ~entryFresh(cache, apiResult.path))

\* null is returned for a file whose content hash differs although its time
\* stamp is not newer than the cached one
C4_Witness ==
    /\ apiResult.op = "get"
    /\ apiResult.rec = NoRecord
    /\ cache.nonNull
    /\ apiResult.path \in DOMAIN cache.files
    /\ statable(apiResult.path)
    /\ mtimeMs(apiResult.path) <= cache.files[apiResult.path].lastModified
    /\ calculateFileHash(apiResult.path) # cache.files[apiResult.path].hash

\* the record the current run holds for source file f
recOf(f) == afiles[CHOOSE i \in 1..Len(afiles) : afiles[i].path = scanPath(f)]
hasRec(f) == \E i \in 1..Len(afiles) : afiles[i].path = scanPath(f)

\* a cache-enabled run between its load and its save
inCachedRun == useCache /\ apc \in {"loop", "built"}

loadedEntries == IF atLoad.kind = "ok" /\ atLoad.version = Version
                 THEN toMap(atLoad.files) ELSE EmptyMap

\* the content of f differs from the content hashed in the loaded entry
contentChanged(f) ==
    /\ scanPath(f) \in DOMAIN loadedEntries
    /\ readable(scanPath(f))
    /\ md5(contentOf(scanPath(f))) # loadedEntries[scanPath(f)].hash

newEntry(f) ==
    [path |-> scanPath(f), hash |-> md5(contentOf(scanPath(f))),
     lastModified |-> mtimeMs(scanPath(f)), analysis |-> analyzeTypeScriptFile(scanPath(f))]

\* C6: a file whose content hash differs from the cached hash is a cache miss
\* of the next cache-enabled run, is extracted from its current content, and
\* its cache entry is replaced by the new hash, mtime and record.
C6_Invalidation ==
    (useCache /\ apc \in {"loop", "built", "saved"}) =>
      \A f \in DOMAIN outcome :
         contentChanged(f) =>
           /\ outcome[f] = "miss"
           /\ hasRec(f)
           /\ recOf(f) = analyzeTypeScriptFile(scanPath(f))
           /\ cache.files[scanPath(f)] = newEntry(f)
           /\ apc = "saved" => <<scanPath(f), newEntry(f)>> \in cacheFile.files

\* a changed file has been extracted again and its new entry persisted
C6_Witness ==
    /\ useCache
    /\ apc = "saved"
    /\ \E f \in DOMAIN outcome : contentChanged(f) /\ outcome[f] = "miss"

versionMismatch == atLoad.kind = "ok" /\ atLoad.version # Version

\* zero hits, every readable file extracted again
noReuse ==
    /\ ~loaded
    /\ cacheHits = 0
    /\ \A f \in DOMAIN outcome :
         /\ outcome[f] # "hit"
         /\ readable(scanPath(f)) => outcome[f] = "miss"

\* the persisted cache holds only what this run has put
onlyNewEntries ==
    \A e \in cacheFile.files :
       \E i \in 1..Len(afiles) :
          /\ e[2].analysis = afiles[i]
          /\ e[1] \in {afiles[i].path, resolveFromBase(afiles[i].path)}

\* C7 as stated: after a version mismatch every getCachedAnalysis call of the
\* run returns null, there are no hits, and no old entry is persisted.
C7_EveryLookupNull ==
    (useCache /\ versionMismatch /\ apc \in {"loop", "built", "saved"}) =>
      /\ noReuse
      /\ \A i \in 1..Len(saveLookups) : saveLookups[i] = NoRecord
      /\ apc = "saved" => onlyNewEntries

\* C7 amended: after a version mismatch load() reports no cache, every
\* getCachedAnalysis call of the analysis loop returns null (zero hits, every
\* file extracted again), a call of the save step returns at most a record this
\* run has put, and no old entry is persisted unless it was put again.
C7_VersionMismatch ==
    (useCache /\ versionMismatch /\ apc \in {"loop", "built", "saved"}) =>
      /\ noReuse
      /\ \A i \in 1..Len(saveLookups) :
           saveLookups[i] # NoRecord =>
             /\ saveLookups[i] = afiles[i]
             /\ \E f \in DOMAIN outcome :
                  outcome[f] = "miss" /\ afiles[i] = analyzeTypeScriptFile(scanPath(f))
      /\ apc = "saved" => onlyNewEntries

\* a run that found a cache of another version has extracted a file whose old
\* entry was still valid, and has saved
C7_Witness ==
    /\ useCache
    /\ versionMismatch
    /\ apc = "saved"
    /\ \E f \in DOMAIN outcome :
         /\ outcome[f] = "miss"
         /\ \E e \in atLoad.files :
              /\ e[1] = scanPath(f)
              /\ e[2].hash = calculateFileHash(scanPath(f))
              /\ mtimeMs(scanPath(f)) <= e[2].lastModified

\* C8: a cache file that cannot be parsed, or has no entry table, is treated
\* like a missing one: load() returns false, the in-memory cache is empty
\* before the first file, there are no hits, every file is extracted.
C8_CorruptLikeMissing ==
    (useCache /\ atLoad.kind \in {"corrupt", "notable", "absent"}
              /\ apc \in {"loop", "built", "saved"}) =>
      /\ noReuse
      /\ (apc = "loop" /\ idx = 1) => cache = NullCache
      /\ apc \in {"built", "saved"} =>
           Len(afiles) = Cardinality({f \in DOMAIN outcome : outcome[f] = "miss"})
      /\ apc = "saved" => onlyNewEntries

\* a run that found a damaged cache file has completed
C8_Witness ==
    /\ useCache
    /\ atLoad.kind \in {"corrupt", "notable"}
    /\ apc = "saved"
    /\ cacheMisses > 0

AllPaths == (RootModes \cup {"nested"}) \X SrcFiles

C10_NodePerScannedFile ==
    apc \in {"built", "saved"} =>
      /\ Len(dependencies) = Len(tsFiles)
      /\ \A i \in 1..Len(tsFiles) : dependencies[i] = scanPath(tsFiles[i])

\* ------------------------------------------------------------------------
\* Properties of the dependency graphs
\* ------------------------------------------------------------------------
\* C11: both endpoints of every edge of a dependency graph are nodes of the
\* graph; an import that resolves to a file the scanner does not yield
\* produces no edge.
C11_EdgesWithinNodes ==
    dpc \in {"built", "detected", "exited"} =>
      \A v \in DOMAIN graph : Range(graph[v]) \subseteq DOMAIN graph

\* ------------------------------------------------------------------------
\* Resolution of one relative import by the three graph builders
\* ------------------------------------------------------------------------
\* The import source, resolved against the importing file's directory, gives
\* the literal path; on disk there may be the literal path (a file or a
\* directory), the path with '.ts' appended, and index.ts inside the path.
\* scanned: the candidates the tool's scanner has yielded; absRoot: the
\* project directory was given as an absolute path.
ImportCases ==
    { i \in [endsTs : BOOLEAN, literal : {"none", "file", "dir"}, plusTs : BOOLEAN,
             index : BOOLEAN, scanned : SUBSET {"literal", "ts", "index"},
             absRoot : BOOLEAN] :
        /\ i.index => i.literal = "dir"
        /\ "literal" \in i.scanned => (i.literal = "file" /\ i.endsTs)
        /\ "ts" \in i.scanned => i.plusTs
        /\ "index" \in i.scanned => i.index }

\* fs.existsSync of a candidate
existsSync(i, cand) ==
    CASE cand = "literal" -> i.literal # "none"
      [] cand = "ts" -> i.plusTs
      [] cand = "index" -> i.index
      [] OTHER -> FALSE

\* the candidate chosen by the if / else-if chain on resolvedPath
candidateWithIndex(i) ==
    IF ~i.endsTs
    THEN IF existsSync(i, "ts") THEN "ts"
         ELSE IF existsSync(i, "index") THEN "index"
         ELSE "literal"
    ELSE "literal"

\* CircularDependencyDetector.extractImports: the chosen candidate is pushed
\* when it exists
extractImportsResolve(i) ==
    LET cand == candidateWithIndex(i)
    IN IF existsSync(i, cand) THEN [tool |-> "detector", target |-> cand, edge |-> TRUE]
       ELSE [tool |-> "detector", target |-> "none", edge |-> FALSE]

\* ProjectAnalyzer.buildDependencyGraph: only '.ts' is tried, and the edge is
\* made when nodeMap, keyed by the scanned paths, has the absolute resolved path
buildDependencyGraphResolve(i) ==
    LET cand == IF ~i.endsTs /\ existsSync(i, "ts") THEN "ts" ELSE "literal"
    IN IF i.absRoot /\ cand \in i.scanned
       THEN [tool |-> "analyzer", target |-> cand, edge |-> TRUE]
       ELSE [tool |-> "analyzer", target |-> "none", edge |-> FALSE]

\* graph-ts-dependencies.ts analyzeFile and buildGraph: the chosen candidate is
\* pushed and becomes an edge whether or not it exists
analyzeFileResolve(i) ==
    [tool |-> "graph", target |-> candidateWithIndex(i), edge |-> TRUE]

ResolveDetector ==
    /\ resolved.tool = "none"
    /\ resolved' = extractImportsResolve(impSrc)
    /\ UNCHANGED <<dvars, fsvars, runvars, histvars, apiResult, tree, scan, impSrc, roleIn, roleOut>>

ResolveAnalyzer ==
    /\ resolved.tool = "none"
    /\ resolved' = buildDependencyGraphResolve(impSrc)
    /\ UNCHANGED <<dvars, fsvars, runvars, histvars, apiResult, tree, scan, impSrc, roleIn, roleOut>>

ResolveGraphTool ==
    /\ resolved.tool = "none"
    /\ resolved' = analyzeFileResolve(impSrc)
    /\ UNCHANGED <<dvars, fsvars, runvars, histvars, apiResult, tree, scan, impSrc, roleIn, roleOut>>

ResolveInit ==
    /\ DetectorOff
    /\ AnalyzerOff
    /\ ScanOff
    /\ RoleOff
    /\ impSrc \in ImportCases
    /\ resolved = NoResolved

ResolveNext == ResolveDetector \/ ResolveAnalyzer \/ ResolveGraphTool

SpecResolve == ResolveInit /\ [][ResolveNext]_vars

\* the first candidate that exists as a file, in the order literal path,
\* path + '.ts', path/index.ts
firstExisting(i) ==
    IF i.literal = "file" THEN "literal"
    ELSE IF i.plusTs THEN "ts"
    ELSE IF i.index THEN "index"
    ELSE "none"

\* C12: a relative import resolves to the first existing candidate in the
\* order literal path, path + '.ts', path/index.ts; an import with no
\* existing candidate produces no edge, and an import whose first existing
\* candidate is a scanned file produces the edge to it.
C12_ResolutionOrder ==
    resolved.tool # "none" =>
      /\ resolved.edge => resolved.target = firstExisting(impSrc)
      /\ firstExisting(impSrc) = "none" => ~resolved.edge
      /\ firstExisting(impSrc) \in impSrc.scanned => resolved.edge

FileEntries ==
    [kind : {"file"}, name : {"ts"}, status : {"ok", "unreadable", "broken"},
     readable : {TRUE}, entries : {<<>>}]
      \cup [kind : {"file"}, name : {"spec", "other"}, status : {"ok"},
            readable : {TRUE}, entries : {<<>>}]
BadLink == [kind |-> "badlink", name |-> "other", status |-> "ok", readable |-> TRUE,
            entries |-> <<>>]
Leaves == FileEntries \cup {BadLink}
DirNames == {"plain", "hidden", "node_modules", "dist", "coverage"}
DirEntries ==
    [kind : {"dir"}, name : DirNames, status : {"ok"}, readable : BOOLEAN,
     entries : {<<>>} \cup {<<l>> : l \in Leaves}]
Trees == [readable : BOOLEAN, entries : SeqUpTo(Leaves \cup DirEntries, MaxEntries)]

\* the directory names traverse does not descend into
analyzerExcluded == {"hidden", "node_modules", "dist", "coverage"}
detectorExcluded == {"hidden", "node_modules", "dist"}

\* traverse(currentPath): the try block with readdirSync and the for loop;
\* a path is the sequence of entry positions from the root
RECURSIVE traverse(_, _, _, _)
RECURSIVE traverseItems(_, _, _, _, _)
traverseItems(d, prefix, i, acc, excl) ==
    IF i > Len(d.entries) THEN acc
    ELSE LET e == d.entries[i]
             fullPath == Append(prefix, i)
         IN IF e.kind = "badlink" THEN acc
            ELSE IF e.kind = "dir"
            THEN traverseItems(d, prefix, i + 1,
                               IF e.name \in excl THEN acc
                               ELSE traverse(e, fullPath, acc, excl), excl)
            ELSE traverseItems(d, prefix, i + 1,
                               IF e.name = "ts" THEN Append(acc, fullPath) ELSE acc, excl)

traverse(d, prefix, acc, excl) ==
    IF ~d.readable THEN acc ELSE traverseItems(d, prefix, 1, acc, excl)

scanAnalyzer(t) == traverse(t, <<>>, <<>>, analyzerExcluded)
scanDetector(t) == traverse(t, <<>>, <<>>, detectorExcluded)

entryAt(t, p) == IF Len(p) = 1 THEN t.entries[p[1]] ELSE t.entries[p[1]].entries[p[2]]

\* analyze-project.ts main with --no-cache on the tree: scan, the for loop
\* with its try / catch, the report, normal end of the process
RunAnalyzerOnTree ==
    /\ scan.tool = "none"
    /\ LET yielded == scanAnalyzer(tree)
           recorded(p) == entryAt(tree, p).status # "unreadable"
           warned(p) == entryAt(tree, p).status # "ok"
       IN scan' = [tool |-> "analyzer", files |-> yielded,
                   records |-> SelectSeq(yielded, recorded),
                   warnings |-> {yielded[k] : k \in {j \in 1..Len(yielded) : warned(yielded[j])}},
                   exit |-> 0]
    /\ UNCHANGED <<dvars, fsvars, runvars, histvars, apiResult, tree, impSrc, resolved,
                   roleIn, roleOut>>

\* detect-circular-deps.ts main on the tree: scan, one graph node per file
\* (extractImports swallows every error), no cycle, exit code 0
RunDetectorOnTree ==
    /\ scan.tool = "none"
    /\ LET yielded == scanDetector(tree)
       IN scan' = [tool |-> "detector", files |-> yielded, records |-> yielded,
                   warnings |-> {}, exit |-> 0]
    /\ UNCHANGED <<dvars, fsvars, runvars, histvars, apiResult, tree, impSrc, resolved,
                   roleIn, roleOut>>

ScanInit ==
    /\ DetectorOff
    /\ AnalyzerOff
    /\ ResolveOff
    /\ RoleOff
    /\ tree \in Trees
    /\ scan = NoScan

ScanNext == RunAnalyzerOnTree \/ RunDetectorOnTree

SpecScan == ScanInit /\ [][ScanNext]_vars

\* ------------------------------------------------------------------------
\* Properties of the scanners and of the runs over a directory tree
\* ------------------------------------------------------------------------
\* the directories below the root that the scan tried to list and could not
failedDirs(t, excl) ==
    { <<i>> : i \in { j \in 1..Len(t.entries) :
                        /\ t.readable
                        /\ t.entries[j].kind = "dir"
                        /\ t.entries[j].name \notin excl
                        /\ ~t.entries[j].readable
                        /\ \A k \in 1..(j - 1) : t.entries[k].kind # "badlink" } }

\* C14: every per-file extraction failure and every per-directory read
\* failure is recovered locally: the run completes, the remaining files are
\* analysed, and the failure is an entry of the report's warnings list.
C14_FailuresRecovered ==
    scan.tool = "analyzer" =>
      /\ scan.exit = 0
      /\ \A k \in 1..Len(scan.files) :
           /\ entryAt(tree, scan.files[k]).status # "unreadable"
                => scan.files[k] \in Range(scan.records)
           /\ entryAt(tree, scan.files[k]).status # "ok" => scan.files[k] \in scan.warnings
      /\ failedDirs(tree, analyzerExcluded) \subseteq scan.warnings

\* C15: a project root that cannot be listed aborts the run with a non-zero
\* exit code.
C15_RootUnreadableFatal ==
    (scan.tool = "analyzer" /\ ~tree.readable) => scan.exit # 0

\* the .ts, non-spec files below the root with no hidden, node_modules, dist
\* or coverage directory on the way, all directories on the way being readable
eligible(t) ==
    IF ~t.readable THEN {}
    ELSE { <<i>> : i \in { j \in 1..Len(t.entries) :
                             t.entries[j].kind = "file" /\ t.entries[j].name = "ts" } }
           \cup { <<i, 1>> : i \in { j \in 1..Len(t.entries) :
                                       /\ t.entries[j].kind = "dir"
                                       /\ t.entries[j].name = "plain"
                                       /\ t.entries[j].readable
                                       /\ Len(t.entries[j].entries) = 1
                                       /\ t.entries[j].entries[1].kind = "file"
                                       /\ t.entries[j].entries[1].name = "ts" } }

\* C17: both scanners yield exactly the regular files whose name ends in
\* '.ts' and not in '.spec.ts' that lie under readable directories with no
\* hidden, node_modules, dist or coverage directory on the way, each once.
C17_ScannerContract ==
    scan.tool # "none" =>
      /\ Range(scan.files) = eligible(tree)
      /\ Len(scan.files) = Cardinality(Range(scan.files))

\* ------------------------------------------------------------------------
\* Further properties of the project analyzer
\* ------------------------------------------------------------------------
\* C16: for every scanned file whose content fails to parse, the run's
\* report holds a record with default fields, a graph node, and a warning
\* naming the file; also when the record is served from the cache.
C16_ParseFailureReported ==
    apc \in {"built", "saved"} =>
      \A i \in 1..Len(tsFiles) :
         LET p == scanPath(tsFiles[i])
         IN (readable(p) /\ ~parses(contentOf(p))) =>
              /\ hasRec(tsFiles[i])
              /\ recOf(tsFiles[i]).decls = 0
              /\ p \in Range(dependencies)
              /\ \E k \in 1..Len(warnings) : warnings[k].file = p

\* ------------------------------------------------------------------------
\* Role classification: analyzeRole (analyze-ts-role.ts) and
\* ProjectAnalyzer.determineRole (analyze-project.ts)
\* ------------------------------------------------------------------------
Decorators == {"Component", "Injectable", "NgModule", "Pipe", "Directive"}
\* conventions the lower-cased file path may contain ('.service.' etc.)
NameMarkers == {"service", "guard", "interceptor", "resolver", "model", "interface", "enum"}
\* kinds of exported declarations: "class" stands for a class, function or
\* variable, which both extractors collect
ExportKinds == {"class", "interface", "enum"}

RoleInputs ==
    [decorators : SUBSET Decorators,
     markers : {{}} \cup {{m} : m \in NameMarkers},
     exports : SUBSET ExportKinds]

\* analyzeRole collects exported classes, functions and variables only
countedExports(exps) == Cardinality(exps \cap {"class"})

\* (mutant) the file name convention is looked at before the decorators
determineRoleNameFirst(dec, nm, exps) ==
    IF "interface" \in nm \/ "interface" \in exps
        THEN [role |-> "Interface Definition", confidence |-> "medium"]
    ELSE IF "Component" \in dec THEN [role |-> "Angular Component", confidence |-> "high"]
    ELSE IF "Injectable" \in dec THEN [role |-> "Injectable Service", confidence |-> "medium"]
    ELSE IF "NgModule" \in dec THEN [role |-> "Module", confidence |-> "high"]
    ELSE IF "Pipe" \in dec THEN [role |-> "Angular Pipe", confidence |-> "high"]
    ELSE IF "Directive" \in dec THEN [role |-> "Angular Directive", confidence |-> "high"]
    ELSE [role |-> "Utility/Helper", confidence |-> "low"]

\* ProjectAnalyzer.determineRole, called for files that parse
determineRole(dec, nm, exps) ==
    IF "Component" \in dec THEN [role |-> "Angular Component", confidence |-> "high"]
    ELSE IF "Injectable" \in dec THEN
        IF "service" \in nm THEN [role |-> "Angular Service", confidence |-> "high"]
        ELSE IF "guard" \in nm THEN [role |-> "Angular Guard", confidence |-> "high"]
        ELSE IF "interceptor" \in nm THEN [role |-> "HTTP Interceptor", confidence |-> "high"]
        ELSE [role |-> "Injectable Service", confidence |-> "medium"]
    ELSE IF "NgModule" \in dec THEN [role |-> "Module", confidence |-> "high"]
    ELSE IF "Pipe" \in dec THEN [role |-> "Angular Pipe", confidence |-> "high"]
    ELSE IF "Directive" \in dec THEN [role |-> "Angular Directive", confidence |-> "high"]
    ELSE IF "interface" \in nm \/ "interface" \in exps
        THEN [role |-> "Interface Definition", confidence |-> "medium"]
    ELSE IF "enum" \in nm \/ "enum" \in exps
        THEN [role |-> "Enum Definition", confidence |-> "medium"]
    ELSE [role |-> "Utility/Helper", confidence |-> "low"]

ApplyAnalyzeRole ==
    /\ roleOut.by = "none"
    /\ LET r == analyzeRole(roleIn.decorators, roleIn.markers, countedExports(roleIn.exports))
       IN roleOut' = [by |-> "analyzeRole", role |-> r.primaryRole, confidence |-> r.confidence]
    /\ UNCHANGED <<dvars, fsvars, runvars, histvars, apiResult, tree, scan, impSrc, resolved,
                   roleIn>>

ApplyDetermineRole ==
    /\ roleOut.by = "none"
    /\ LET r == determineRole(roleIn.decorators, roleIn.markers, roleIn.exports)
       IN roleOut' = [by |-> "determineRole", role |-> r.role, confidence |-> r.confidence]
    /\ UNCHANGED <<dvars, fsvars, runvars, histvars, apiResult, tree, scan, impSrc, resolved,
                   roleIn>>

RoleInit ==
    /\ DetectorOff
    /\ AnalyzerOff
    /\ ScanOff
    /\ ResolveOff
    /\ roleIn \in RoleInputs
    /\ roleOut = NoRoleOut

RoleNext == ApplyAnalyzeRole \/ ApplyDetermineRole

SpecRole == RoleInit /\ [][RoleNext]_vars

\* the annotation a role label stands for
annotationOf(role) ==
    CASE role \in {"Component", "Angular Component"} -> "Component"
      [] role \in {"Service", "Guard", "Interceptor", "Resolver", "Injectable Service",
                   "Angular Service", "Angular Guard", "HTTP Interceptor"} -> "Injectable"
      [] role = "Module" -> "NgModule"
      [] role \in {"Pipe", "Angular Pipe"} -> "Pipe"
      [] role \in {"Directive", "Angular Directive"} -> "Directive"
      [] OTHER -> "none"

\* C18 as stated: with a role-defining annotation the confidence is high and
\* the role is that of an annotation that is present.
C18_AnnotationHigh ==
    (roleOut.by # "none" /\ roleIn.decorators # {}) =>
      /\ annotationOf(roleOut.role) \in roleIn.decorators
      /\ roleOut.confidence = "high"

\* the first annotation present, in the order the classifiers test them
firstAnnotation(dec) ==
    IF "Component" \in dec THEN "Component"
    ELSE IF "Injectable" \in dec THEN "Injectable"
    ELSE IF "NgModule" \in dec THEN "NgModule"
    ELSE IF "Pipe" \in dec THEN "Pipe"
    ELSE "Directive"

\* the file name conventions that refine an Injectable
refinements(by) ==
    IF by = "analyzeRole" THEN {"service", "guard", "interceptor", "resolver"}
    ELSE {"service", "guard", "interceptor"}

\* C18 amended: with a role-defining annotation the role is that of the first
\* annotation present in the order Component, Injectable, NgModule, Pipe,
\* Directive, whatever the file name and the exports are; the confidence is
\* high, except for an Injectable whose file name carries no refining
\* convention, which is an 'Injectable Service' with confidence medium.
C18_AnnotationRule ==
    (roleOut.by # "none" /\ roleIn.decorators # {}) =>
      /\ annotationOf(roleOut.role) = firstAnnotation(roleIn.decorators)
      /\ roleOut.confidence =
           IF /\ firstAnnotation(roleIn.decorators) = "Injectable"
              /\ roleIn.markers \cap refinements(roleOut.by) = {}
           THEN "medium" ELSE "high"
      /\ (roleOut.confidence = "medium") => (roleOut.role = "Injectable Service")

\* an Injectable in a file named like a model is an Injectable Service of
\* confidence medium, and a Pipe in a file named like an interface is a Pipe
C18_Witness ==
    /\ roleOut.by = "determineRole"
    /\ roleIn.decorators = {"Pipe"}
    /\ roleIn.markers = {"interface"}
    /\ roleOut.role = "Angular Pipe"
    /\ roleOut.confidence = "high"

\* C19: without a role-defining annotation, a '.model.' or '.interface.' file
\* name gives confidence medium; otherwise an exported symbol gives role
\* Utility/Helper with confidence low; otherwise the role is Unknown with
\* confidence low; in both classifiers.
C19_FallbackRules ==
    (roleOut.by # "none" /\ roleIn.decorators = {}) =>
      IF roleIn.markers \cap {"model", "interface"} # {}
      THEN roleOut.confidence = "medium"
      ELSE IF roleIn.exports # {}
      THEN roleOut.role = "Utility/Helper" /\ roleOut.confidence = "low"
      ELSE roleOut.role = "Unknown" /\ roleOut.confidence = "low"

\* ------------------------------------------------------------------------
\* The persisted cache file within one run of analyze-project.ts
\* ------------------------------------------------------------------------
occurrences(log, x) == Cardinality({i \in 1..Len(log) : log[i] = x})

\* C20: a cache-enabled run reads the cache file once, before the first file
\* is analysed, and writes it once, after the last one; the file is not
\* touched in between; a run without the cache neither reads nor writes it.
C20_CacheReadWriteOnce ==
    (apc \in {"loop", "built", "saved"}) =>
      IF useCache
      THEN /\ Len(ioLog) >= 1
           /\ ioLog[1] = "load"
           /\ occurrences(ioLog, "load") = 1
           /\ (apc \in {"loop", "built"}) =>
                 /\ occurrences(ioLog, "save") = 0
                 /\ cacheFile = atLoad
           /\ (apc = "saved") =>
                 /\ ioLog[Len(ioLog)] = "save"
                 /\ occurrences(ioLog, "save") = 1
                 /\ occurrences(ioLog, "file") = Len(tsFiles)
                 /\ Len(ioLog) = Len(tsFiles) + 2
      ELSE /\ occurrences(ioLog, "load") = 0
           /\ occurrences(ioLog, "save") = 0
           /\ occurrences(ioLog, "file") = idx - 1
           /\ cacheFile = atLoad

\* a cache-enabled run over two files has ended and replaced the cache file
C20_Witness ==
    /\ apc = "saved"
    /\ useCache
    /\ ioLog = <<"load", "file", "file", "save">>
    /\ cacheFile # atLoad

\* ------------------------------------------------------------------------
\* Order of the members of a cycle and of the cycles
\* ------------------------------------------------------------------------
\* the graph is the three-file cycle x -> y -> z -> x and x is scanned first
isRing3(x, y, z) ==
    /\ Len(files) = 3
    /\ x = files[1]
    /\ Cardinality({x, y, z}) = 3
    /\ DOMAIN graph = {x, y, z}
    /\ graph[x] = <<y>>
    /\ graph[y] = <<z>>
    /\ graph[z] = <<x>>

nextIn(n, i) == (i % n) + 1

\* C25: in every reported Cycle each member imports the member printed after
\* it, and the last member imports the first.
C25_ClosedWalk ==
    detectDone =>
      \A k \in 1..Len(circularDeps) :
         LET c == circularDeps[k].cycle
         IN \A i \in 1..Len(c) : c[nextIn(Len(c), i)] \in succs(graph, c[i])

\* some member of cycle number i reaches some member of cycle number j
cycleReaches(i, j) ==
    \E a \in Range(circularDeps[i].cycle) :
       Range(circularDeps[j].cycle) \cap reachable(graph, {a}) # {}

\* C26: a cycle that is reachable from another cycle is reported before it,
\* and the list of cycles is a function of the graph and of the insertion
\* order of its nodes.
C26_PostOrder ==
    detectDone =>
      /\ \A i, j \in 1..Len(circularDeps) : (i # j /\ cycleReaches(i, j)) => j < i
      /\ circularDeps = findStronglyConnectedComponents(graph, graphKeys, <<>>)

\* the cycle scanned first imports from a second cycle, which is reported first
C26_Witness ==
    /\ dpc = "detected"
    /\ Len(circularDeps) = 2
    /\ cycleReaches(2, 1)
    /\ files[1] \in Range(circularDeps[2].cycle)

insertionOrders ==
    {p \in [1..Len(files) -> Range(files)] : \A i, j \in 1..Len(files) : p[i] = p[j] => i = j}

\* a list of cycles, each seen as its set of members with type and severity
asSets(deps) ==
    {[members |-> Range(deps[i].cycle), type |-> deps[i].type, severity |-> deps[i].severity] :
        i \in 1..Len(deps)}

\* C30: for every insertion order of the same files with the same imports the
\* detector reports the same cycles, seen as sets of members with their type
\* and severity.
C30_OrderIndependent ==
    (dpc = "detected") =>
      \A order \in insertionOrders :
         LET other == findStronglyConnectedComponents(graph, order, <<>>)
         IN /\ asSets(other) = asSets(circularDeps)
            /\ Len(other) = Len(circularDeps)

\* another insertion order gives the same two cycles as a different list
C30_Witness ==
    /\ dpc = "detected"
    /\ Len(circularDeps) = 2
    /\ \E order \in insertionOrders :
         LET other == findStronglyConnectedComponents(graph, order, <<>>)
         IN /\ other # circularDeps
            /\ other[1].cycle # circularDeps[2].cycle
            /\ asSets(other) = asSets(circularDeps)

\* ------------------------------------------------------------------------
\* Failures during the scan
\* ------------------------------------------------------------------------
\* C24: a directory that cannot be read, or an entry that cannot be stat'ed,
\* removes only its own subtree from the scan: every eligible file outside
\* of it, later siblings included, is yielded.
C24_OnlySubtreeSkipped ==
    scan.tool # "none" => eligible(tree) \subseteq Range(scan.files)

\* ------------------------------------------------------------------------
\* Cache entries of files that are no longer scanned
\* ------------------------------------------------------------------------
\* the cache keys the run may set: the scanned paths as the loop and as the
\* save step name them
keysOfScan ==
    {scanPath(tsFiles[i]) : i \in 1..Len(tsFiles)}
      \cup {resolveFromBase(scanPath(tsFiles[i])) : i \in 1..Len(tsFiles)}

\* C29: an entry loaded at the start of a cache-enabled run stays in the cache
\* during the run and is in the cache persisted at its end; if its path is
\* not among the scanned files it is left as it was loaded.
C29_NoEviction ==
    (useCache /\ apc \in {"loop", "built", "saved"}) =>
      \A p \in DOMAIN loadedEntries :
         /\ cache.nonNull
         /\ p \in DOMAIN cache.files
         /\ p \notin keysOfScan => cache.files[p] = loadedEntries[p]
         /\ apc = "saved" =>
              /\ p \in {e[1] : e \in cacheFile.files}
              /\ p \notin keysOfScan => <<p, loadedEntries[p]>> \in cacheFile.files

\* the entry of a deleted file has been loaded and persisted again
C29_Witness ==
    /\ useCache
    /\ apc = "saved"
    /\ \E p \in DOMAIN loadedEntries :
         /\ disk[p[2]].status = "gone"
         /\ p \notin keysOfScan
         /\ <<p, loadedEntries[p]>> \in cacheFile.files

\* ------------------------------------------------------------------------
\* The cache does not change the result of a run
\* ------------------------------------------------------------------------
\* the records a run with --no-cache makes of the scanned files as they are
\* on disk: one per file that can be read, in scan order
extractedFiles ==
    LET canRead(f) == readable(scanPath(f))
        rd == SelectSeq(tsFiles, canRead)
    IN [i \in 1..Len(rd) |-> analyzeTypeScriptFile(scanPath(rd[i]))]

\* the tool is started again with the project directory spelled differently
\* on the command line (absolute, '.', or relative to the working directory)
ChangeRoot ==
    /\ apc = "done"
    /\ runs < MaxRuns
    /\ \E m \in RootModes \ {rootMode} : rootMode' = m
    /\ UNCHANGED <<disk, cacheFile, edits, runvars, histvars, othervars>>

ReinvokeNext == AnalyzeNext \/ ChangeRoot

SpecReinvoke == AnalyzeInit /\ [][ReinvokeNext]_vars

\* C28: on a tree that is never modified, a run yields the records and the
\* graph that a run without the cache yields, whatever mix of cache hits and
\* misses it has.
C28_CacheTransparent ==
    (apc \in {"built", "saved"} /\ edits = 0) =>
      /\ afiles = extractedFiles
      /\ dependencies = graphNodes(extractedFiles)

\* ------------------------------------------------------------------------
\* A source file is changed while the project analyzer runs
\* ------------------------------------------------------------------------
\* another process rewrites a source file between two steps of analyze()
WriteFileDuringRun ==
    /\ apc \in {"loop", "built"}
    /\ edits < MaxEdits
    /\ edits' = edits + 1
    /\ \E f \in SrcFiles : \E c \in Contents :
         /\ disk[f].status = "ok"
         /\ c # disk[f].content
         /\ disk' = [disk EXCEPT ![f].content = c, ![f].mtime = @ + 1]
         /\ changed' = changed \cup {f}
    /\ UNCHANGED <<rootMode, cacheFile, runvars, lastRecs, othervars>>

RaceNext == AnalyzeNext \/ WriteFileDuringRun

SpecRace == AnalyzeInit /\ [][RaceNext]_vars

\* the record stored in a cache entry is the extraction of the content whose
\* hash is stored with it
entryConsistent(e) ==
    \E c \in Contents :
       /\ e.hash = md5(c)
       /\ e.analysis.linesOfCode = linesOf(c)
       /\ e.analysis.decls = IF parses(c) THEN c ELSE 0

\* C23: every persisted cache entry holds the record of exactly the content
\* whose hash it holds, also when files change during a run, and no run
\* serves from the cache a record that differs from the extraction of the
\* file as it is.
C23_EntriesMatchContent ==
    /\ \A e \in cacheFile.files : entryConsistent(e[2])
    /\ (useCache /\ apc \in {"loop", "built", "saved"}) =>
         \A f \in DOMAIN outcome \ changed :
            (outcome[f] = "hit" /\ readable(scanPath(f))) =>
               recOf(f) = analyzeTypeScriptFile(scanPath(f))

\* ------------------------------------------------------------------------
\* The graph builder and the file system
\* ------------------------------------------------------------------------
\* the same records and import source as i, with any state of the file
\* system at the time the graph is built
sameRecordsAnyDisk(i) ==
    { j \in [endsTs : {i.endsTs}, literal : {"none", "file", "dir"}, plusTs : BOOLEAN,
             index : BOOLEAN, scanned : {i.scanned}, absRoot : {i.absRoot}] :
        j.index => j.literal = "dir" }

\* C22: the edges buildDependencyGraph makes are a function of the records
\* alone: with the same records it makes the same edge whatever the state of
\* the file system is when it runs.
C22_FunctionOfRecords ==
    (resolved.tool = "analyzer") =>
      \A j \in sameRecordsAnyDisk(impSrc) : buildDependencyGraphResolve(j) = resolved

====
